---------------------------- MODULE Spec2Model ----------------------------
(***************************************************************************)
(* Forex dashboard: ForexDataFetcher (src/scripts/data_fetcher.py) and the *)
(* Streamlit page (src/app.py).                                            *)
(*                                                                         *)
(* Numbers.  Prices are fixed-point integers in pips (1.1000 is 11000).    *)
(* The exponentially weighted averages behind the RSI carry EwmScale more  *)
(* digits, and the RSI is kept in hundredths of a point (30.00 is 3000).   *)
(* Divisions truncate, where the program's float divisions round.          *)
(*                                                                         *)
(* A DataFrame is [index, cols, vals]: the row labels, the column names in *)
(* order, and one sequence of cells per column.  A cell is a record        *)
(* [k, v, s]: k = "nan" (undefined), "f" (float, v), "i" (integer, v),     *)
(* "s" (string, s) or "o" (a defined float whose value is not modelled:    *)
(* the moving averages, bands, MACD, stochastic and ATR columns, which no  *)
(* checked property reads).  None is the Python None.                      *)
(***************************************************************************)
EXTENDS Integers, Sequences, FiniteSets, TLC

VARIABLES
    \* ---- ForexDataFetcher.calculate_indicators, called on one table
    arg,        \* the DataFrame object the caller passed (mutable), or None
    arg0,       \* its contents when the call was made
    ret,        \* what the call returned
    caught,     \* the except branch of calculate_indicators ran
    pc,         \* "call" before the call, "done" after it
    \* ---- ForexDataFetcher.fetch_forex_data
    resp,       \* what yf.download does for the request
    fetched,    \* what fetch_forex_data returned
    fpc,        \* "call", "done", or "raised" if an exception escaped
    \* ---- the page: st.cache_data around load_data
    now,        \* the cache's clock, seconds
    cache,      \* key -> None or [value, stored]
    calls,      \* per request triple: provider calls [n], the last one's
                \* result [value] and time [at]
    last,       \* the last request: [seq, req, hit, value]
    ticks,      \* clock steps taken
    refresh,    \* st.session_state.refresh
    \* ---- the page: presentation of one load_data result
    result,     \* the table load_data returned, or None
    failed,     \* calculate_indicators caught a failure while producing it
    toggles,    \* the six sidebar checkboxes
    view,       \* what the script run produced
    rpc,        \* "run" before the script body, "done" after
    \* ---- ForexDataFetcher.save_data / load_data on data_dir
    files,      \* path -> None or [text]: the file's lines of fields
    saved,      \* file name -> None or the table last saved under it
    loaded      \* the last load: [seq, name, table]

engineVars == <<arg, arg0, ret, caught, pc>>
fetchVars  == <<resp, fetched, fpc>>
cacheVars  == <<now, cache, calls, last, ticks, refresh>>
pageVars   == <<result, failed, toggles, view, rpc>>
storeVars  == <<files, saved, loaded>>
vars == <<engineVars, fetchVars, cacheVars, pageVars, storeVars>>

None == [k |-> "None"]

-----------------------------------------------------------------------------
(* Cells and DataFrames                                                    *)

NaN    == [k |-> "nan", v |-> 0, s |-> ""]
F(x)   == [k |-> "f", v |-> x, s |-> ""]
I(x)   == [k |-> "i", v |-> x, s |-> ""]
S(x)   == [k |-> "s", v |-> 0, s |-> x]
Opaque == [k |-> "o", v |-> 0, s |-> ""]

IsNaN(c) == c.k = "nan"

Range(q) == {q[i] : i \in 1..Len(q)}

NRows(df) == Len(df.index)
HasCol(df, c) == c \in Range(df.cols)
ColPos(df, c) == CHOOSE j \in 1..Len(df.cols) : df.cols[j] = c
Col(df, c) == df.vals[ColPos(df, c)]

\* df.empty: no rows or no columns
IsEmpty(df) == NRows(df) = 0 \/ Len(df.cols) = 0

\* df[c] = series: replaces the column in place, or appends it
SetCol(df, c, series) ==
    IF HasCol(df, c)
    THEN [df EXCEPT !.vals[ColPos(df, c)] = series]
    ELSE [df EXCEPT !.cols = Append(@, c), !.vals = Append(@, series)]

OHLCV == <<"Open", "High", "Low", "Close", "Volume">>


-----------------------------------------------------------------------------
(* ForexDataFetcher.calculate_indicators                                   *)

RSI_WINDOW == 14
RSI_BUY_BELOW == 30
RSI_SELL_ABOVE == 70
\* fixed-point precision of the averages and of the RSI
EwmScale == 1000
RsiScale == 100
RSI_MAX == 100 * RsiScale
RSI_OVERSOLD == RSI_BUY_BELOW * RsiScale
RSI_OVERBOUGHT == RSI_SELL_ABOVE * RsiScale

\* close.diff(1), split as ta.momentum.RSIIndicator does: the rise and the
\* fall of each row against the row before; the first row, whose diff is
\* undefined, counts as 0 on both sides (diff.where(diff > 0, 0.0)).
UpMove(close, i) ==
    IF i > 1 /\ close[i].v > close[i-1].v THEN close[i].v - close[i-1].v ELSE 0
DownMove(close, i) ==
    IF i > 1 /\ close[i].v < close[i-1].v THEN close[i-1].v - close[i].v ELSE 0

\* series.ewm(alpha = 1/w, adjust = False).mean(): y1 = x1,
\* y[i] = (1 - 1/w) * y[i-1] + x[i]/w, as a sequence of scaled integers
RECURSIVE EwmFrom(_, _, _, _, _)
EwmFrom(x, w, i, prev, acc) ==
    IF i > Len(x) THEN acc
    ELSE LET y == IF i = 1 THEN x[1] * EwmScale
                  ELSE ((w - 1) * prev + x[i] * EwmScale) \div w
         IN EwmFrom(x, w, i + 1, y, Append(acc, y))
Ewm(x, w) == EwmFrom(x, w, 1, 0, << >>)

\* ta.momentum.rsi(close, window = w): undefined on the first w - 1 rows
\* (min_periods = w), 100 where the average loss is 0, and
\* 100 - 100 / (1 + avg_gain / avg_loss) elsewhere
rsi(close, w) ==
    LET n    == Len(close)
        up   == Ewm([i \in 1..n |-> UpMove(close, i)], w)
        down == Ewm([i \in 1..n |-> DownMove(close, i)], w)
    IN [i \in 1..n |->
          IF i < w THEN NaN
          ELSE IF down[i] = 0 THEN F(RSI_MAX)
          ELSE F(RSI_MAX - (RSI_MAX * down[i]) \div (up[i] + down[i]))]

\* the rule with an undefined RSI read as 0 (an RSI column filled with
\* zeros before the comparison)
SignalOfFillna(r) ==
    IF IsNaN(r) \/ r.v < RSI_OVERSOLD THEN "BUY"
    ELSE IF r.v > RSI_OVERBOUGHT THEN "SELL" ELSE "HOLD"
\* lines 103-105: 'HOLD', then 'BUY' where RSI < 30, then 'SELL' where
\* RSI > 70; a comparison with an undefined RSI is False
SignalOf(r) ==
    LET s0 == "HOLD"
        s1 == IF ~IsNaN(r) /\ r.v < RSI_OVERSOLD THEN "BUY" ELSE s0
    IN IF ~IsNaN(r) /\ r.v > RSI_OVERBOUGHT THEN "SELL" ELSE s1

\* The assignments of the try block, in order: the column each one sets and
\* the columns of df it reads (a missing one raises KeyError).
Steps == <<
    [col |-> "SMA_20",      reads |-> {"Close"}],
    [col |-> "SMA_50",      reads |-> {"Close"}],
    [col |-> "EMA_12",      reads |-> {"Close"}],
    [col |-> "EMA_26",      reads |-> {"Close"}],
    [col |-> "BB_High",     reads |-> {"Close"}],
    [col |-> "BB_Mid",      reads |-> {}],
    [col |-> "BB_Low",      reads |-> {}],
    [col |-> "RSI",         reads |-> {"Close"}],
    [col |-> "MACD",        reads |-> {"Close"}],
    [col |-> "MACD_Signal", reads |-> {}],
    [col |-> "MACD_Diff",   reads |-> {}],
    [col |-> "Stoch_K",     reads |-> {"High", "Low", "Close"}],
    [col |-> "Stoch_D",     reads |-> {}],
    [col |-> "ATR",         reads |-> {"High", "Low", "Close"}],
    [col |-> "Signal",      reads |-> {"RSI"}] >>

DerivedCols == {Steps[k].col : k \in 1..Len(Steps)}

\* the series one step assigns
StepSeries(df, k) ==
    LET n == NRows(df)
    IN CASE Steps[k].col = "RSI" -> rsi(Col(df, "Close"), RSI_WINDOW)
         [] Steps[k].col = "Signal" ->
                [i \in 1..n |-> S(SignalOf(Col(df, "RSI")[i]))]
         [] OTHER -> [i \in 1..n |-> Opaque]

\* step k raises: a column it reads is missing, or the indicator library
\* raises there (fault = k; fault = 0: it raises nowhere)
StepRaises(df, k, fault) ==
    \/ fault = k
    \/ \E c \in Steps[k].reads : ~HasCol(df, c)

\* the try block from step k on, on the caller's object: [df, ok]
RECURSIVE RunSteps(_, _, _)
RunSteps(df, k, fault) ==
    IF k > Len(Steps) THEN [df |-> df, ok |-> TRUE]
    ELSE IF StepRaises(df, k, fault) THEN [df |-> df, ok |-> FALSE]
    ELSE RunSteps(SetCol(df, Steps[k].col, StepSeries(df, k)), k + 1, fault)

\* calculate_indicators(df): [obj, ret, caught]: the caller's object after
\* the call, the value returned (the same object), and whether the except
\* branch ran
calculate_indicators(df, fault) ==
    IF df = None THEN [obj |-> df, ret |-> df, caught |-> FALSE]
    ELSE IF IsEmpty(df) THEN [obj |-> df, ret |-> df, caught |-> FALSE]
    ELSE LET r == RunSteps(df, 1, fault)
         IN [obj |-> r.df, ret |-> r.df, caught |-> ~r.ok]

-----------------------------------------------------------------------------
(* Input tables                                                            *)

MaxBars == 16
ScenarioBars == 60
TailLen == 2
BasePrice == 11000
Spread == 5
LeadMoves == {-1, 0, 1}
TailMoves == {-10, 0, 10}

\* the move from row j to row j + 1 of an n-row table: a steady lead-in,
\* then TailLen free moves
MoveAt(n, lead, tail, j) ==
    IF j > n - 1 - TailLen THEN tail[j - (n - 1 - TailLen)] ELSE lead

RECURSIVE ClosesFrom(_, _, _, _, _)
ClosesFrom(n, lead, tail, i, acc) ==
    IF i > n THEN acc
    ELSE ClosesFrom(n, lead, tail, i + 1,
             Append(acc, IF i = 1 THEN BasePrice
                         ELSE acc[i-1] + MoveAt(n, lead, tail, i - 1)))

\* a clean OHLCV table as fetch_forex_data hands it on
Bars(n, lead, tail) ==
    LET close == ClosesFrom(n, lead, tail, 1, << >>)
    IN [index |-> [i \in 1..n |-> i],
        cols  |-> OHLCV,
        vals  |-> << [i \in 1..n |-> F(close[i])],
                     [i \in 1..n |-> F(close[i] + Spread)],
                     [i \in 1..n |-> F(close[i] - Spread)],
                     [i \in 1..n |-> F(close[i])],
                     [i \in 1..n |-> I(0)] >>]

\* df.drop(columns = [c])
DropCol(df, c) ==
    LET keep == {j \in 1..Len(df.cols) : df.cols[j] # c}
        pos(m) == CHOOSE j \in keep : Cardinality({x \in keep : x < j}) = m - 1
    IN [df EXCEPT !.cols = [m \in 1..Cardinality(keep) |-> df.cols[pos(m)]],
                  !.vals = [m \in 1..Cardinality(keep) |-> df.vals[pos(m)]]]

\* the flat market of ScenarioBars bars
FlatTable == Bars(ScenarioBars, 0, [j \in 1..TailLen |-> 0])

CleanTables ==
    {Bars(n, lead, tail) : n \in 0..MaxBars, lead \in LeadMoves,
                           tail \in [1..TailLen -> TailMoves]}
    \cup {FlatTable}

\* what a caller may pass to calculate_indicators: None, a clean table, or
\* a table lacking one of the columns the indicators read
EngineInputs ==
    {None} \cup CleanTables
           \cup {DropCol(t, c) : t \in CleanTables, c \in {"High", "Close"}}

-----------------------------------------------------------------------------
(* Idle values of the parts a specification does not exercise              *)

NoView == [state |-> "none", rows |-> 0, traces |-> {}, hlines |-> {},
           metrics |-> {}, chart |-> FALSE, tables |-> {}]
NoToggles == [sma |-> FALSE, ema |-> FALSE, bb |-> FALSE,
              rsi |-> FALSE, macd |-> FALSE, stoch |-> FALSE]

EngineIdle == arg = None /\ arg0 = None /\ ret = None /\ caught = FALSE
              /\ pc = "idle"
FetchIdle  == resp = None /\ fetched = None /\ fpc = "idle"
CacheIdle  == now = 0 /\ cache = << >> /\ calls = << >> /\ last = None
              /\ ticks = 0 /\ refresh = FALSE
PageIdle   == result = None /\ failed = FALSE /\ toggles = NoToggles
              /\ view = NoView /\ rpc = "idle"
StoreIdle  == files = << >> /\ saved = << >> /\ loaded = None

-----------------------------------------------------------------------------
(* SpecEngine: one call of calculate_indicators                            *)

InitEngine ==
    /\ arg \in EngineInputs
    /\ arg0 = arg
    /\ ret = None
    /\ caught = FALSE
    /\ pc = "call"
    /\ FetchIdle /\ CacheIdle /\ PageIdle /\ StoreIdle

CalculateIndicators ==
    /\ pc = "call"
    /\ \E fault \in 0..Len(Steps) :
         LET r == calculate_indicators(arg, fault)
         IN /\ arg' = r.obj
            /\ ret' = r.ret
            /\ caught' = r.caught
    /\ pc' = "done"
    /\ UNCHANGED <<arg0, fetchVars, cacheVars, pageVars, storeVars>>

NextEngine == CalculateIndicators

SpecEngine == InitEngine /\ [][NextEngine]_vars

-----------------------------------------------------------------------------
(* ForexDataFetcher.fetch_forex_data                                       *)

\* the rows of df at the positions in keep, in order
SelectRows(df, keep) ==
    LET m == Cardinality(keep)
        pos(r) == CHOOSE i \in keep : Cardinality({x \in keep : x < i}) = r - 1
    IN [df EXCEPT !.index = [r \in 1..m |-> df.index[pos(r)]],
                  !.vals  = [j \in 1..Len(df.cols) |->
                                [r \in 1..m |-> df.vals[j][pos(r)]]]]

\* data.dropna(): the rows without an undefined cell
dropna(df) ==
    SelectRows(df, {i \in 1..NRows(df) :
                      \A j \in 1..Len(df.cols) : ~IsNaN(df.vals[j][i])})

\* fetch_forex_data: resp is what yf.download does, [kind |-> "raise"] or
\* [kind |-> "frame", df |-> the table it returns].  Returns
\* [value, raised]: raised is an exception leaving the method.
fetch_forex_data(r) ==
    IF r.kind = "raise" THEN [value |-> None, raised |-> FALSE]
    ELSE IF IsEmpty(r.df) THEN [value |-> None, raised |-> FALSE]
    \* data.columns = [five names]: ValueError on any other column count
    ELSE IF Len(r.df.cols) # Len(OHLCV) THEN [value |-> None, raised |-> FALSE]
    ELSE [value |-> dropna([r.df EXCEPT !.cols = OHLCV]), raised |-> FALSE]

MaxProviderRows == 3

\* the provider's own column names: adjusted (five) or unadjusted (six)
ProviderCols5 == <<"Close", "High", "Low", "Open", "Volume">>
ProviderCols6 == <<"Open", "High", "Low", "Close", "Adj Close", "Volume">>

\* an n-row provider table; missing[i] is the set of fields absent in row i
ProviderFrame(cols, n, missing) ==
    [index |-> [i \in 1..n |-> i],
     cols  |-> cols,
     vals  |-> [j \in 1..Len(cols) |->
                  [i \in 1..n |-> IF j \in missing[i] THEN NaN
                                  ELSE IF cols[j] = "Volume" THEN F(0)
                                  ELSE F(BasePrice + i)]]]

\* the fields a row may lack: none, or one of the five
MissingFields == {{}} \cup {{j} : j \in 1..Len(OHLCV)}

ProviderOutcomes ==
    {[kind |-> "raise"]}
    \cup UNION {{[kind |-> "frame", df |-> ProviderFrame(ProviderCols5, n, m)] :
                    m \in [1..n -> MissingFields]} :
                 n \in 0..MaxProviderRows}
    \cup {[kind |-> "frame",
           df |-> ProviderFrame(ProviderCols6, n, [i \in 1..n |-> {}])] :
            n \in 1..MaxProviderRows}

InitFetch ==
    /\ resp \in ProviderOutcomes
    /\ fetched = None
    /\ fpc = "call"
    /\ EngineIdle /\ CacheIdle /\ PageIdle /\ StoreIdle

FetchForexData ==
    /\ fpc = "call"
    /\ LET r == fetch_forex_data(resp)
       IN /\ fetched' = r.value
          /\ fpc' = IF r.raised THEN "raised" ELSE "done"
    /\ UNCHANGED <<resp, engineVars, cacheVars, pageVars, storeVars>>

NextFetch == FetchForexData

SpecFetch == InitFetch /\ [][NextFetch]_vars

-----------------------------------------------------------------------------
(* app.py: load_data behind st.cache_data                                  *)

TTL == 3600

\* the body of load_data: fetch, then the indicators unless the fetch
\* returned None.  [value, failed]
load_data(r, fault) ==
    LET df == fetch_forex_data(r).value
    IN IF df # None
       THEN LET c == calculate_indicators(df, fault)
            IN [value |-> c.ret, failed |-> c.caught]
       ELSE [value |-> df, failed |-> FALSE]

\* a key that leaves the interval out
CacheKeyNoInterval(pair, period, interval) == <<pair, period>>
\* st.cache_data keys an entry by the arguments of the call
CacheKey(pair, period, interval) == <<pair, period, interval>>

Pairs     == {"EURUSD=X"}
Periods   == {"6mo"}
Intervals == {"1d", "1wk"}
Requests  == Pairs \X Periods \X Intervals
CacheKeys == {CacheKey(q[1], q[2], q[3]) : q \in Requests}

MaxTicks == 2
MaxRequests == 4
TickSteps == {1, TTL - 1}

\* what the provider may answer while the cache is exercised
CacheResponses ==
    {[kind |-> "raise"]}
    \cup {[kind |-> "frame", df |-> Bars(2, 0, [j \in 1..TailLen |-> m])] :
            m \in {-10, 10}}

\* an entry is served while its age is below the ttl
Fresh(entry, t) == entry # None /\ t - entry.stored < TTL

InitCache ==
    /\ now = 0
    /\ cache = [k \in CacheKeys |-> None]
    /\ calls = [q \in Requests |-> [n |-> 0, value |-> None, at |-> 0]]
    /\ last = [seq |-> 0, req |-> <<"", "", "">>, hit |-> FALSE,
               value |-> None]
    /\ ticks = 0
    /\ refresh = FALSE
    /\ EngineIdle /\ FetchIdle /\ PageIdle /\ StoreIdle

\* time passes between two script runs
Tick ==
    /\ ticks < MaxTicks
    /\ \E d \in TickSteps : now' = now + d
    /\ ticks' = ticks + 1
    /\ UNCHANGED <<cache, calls, last, refresh,
                   engineVars, fetchVars, pageVars, storeVars>>

\* the refresh button: sets a session flag that nothing reads
RefreshButton ==
    /\ ~refresh
    /\ refresh' = TRUE
    /\ UNCHANGED <<now, cache, calls, last, ticks,
                   engineVars, fetchVars, pageVars, storeVars>>

\* df = load_data(selected_pair, period, interval) in a script run
Request ==
    /\ last.seq < MaxRequests
    /\ \E q \in Requests :
         LET k == CacheKey(q[1], q[2], q[3])
         IN IF Fresh(cache[k], now)
            THEN /\ last' = [seq |-> last.seq + 1, req |-> q, hit |-> TRUE,
                             value |-> cache[k].value]
                 /\ UNCHANGED <<cache, calls>>
            ELSE \E r \in CacheResponses :
                   LET v == load_data(r, 0).value
                   IN /\ cache' = [cache EXCEPT
                                     ![k] = [value |-> v, stored |-> now]]
                      /\ calls' = [calls EXCEPT
                                     ![q] = [n |-> @.n + 1, value |-> v,
                                             at |-> now]]
                      /\ last' = [seq |-> last.seq + 1, req |-> q,
                                  hit |-> FALSE, value |-> v]
    /\ UNCHANGED <<now, ticks, refresh,
                   engineVars, fetchVars, pageVars, storeVars>>

NextCache == Tick \/ RefreshButton \/ Request

SpecCache == InitCache /\ [][NextCache]_vars

-----------------------------------------------------------------------------
(* app.py: the presentation of one load_data result (lines 84-313)         *)

B2N(b) == IF b THEN 1 ELSE 0

\* lines 114-120
num_subplots(t) == 1 + B2N(t.rsi) + B2N(t.macd) + B2N(t.stoch)

\* current_row where each sub-panel is drawn: 2, stepped after the RSI
\* panel (line 237) and after the MACD panel (line 260)
RsiRow(t) == 2
\* the MACD row without the step of line 237
MacdRowNoStep(t) == RsiRow(t)
MacdRow(t) == IF t.rsi THEN RsiRow(t) + 1 ELSE RsiRow(t)
StochRow(t) == IF t.macd THEN MacdRow(t) + 1 ELSE MacdRow(t)

Eval(reads, minRows) ==
    [op |-> "eval", name |-> "", reads |-> reads, minRows |-> minRows,
     row |-> 0, y |-> 0]
Metric(name, reads) ==
    [op |-> "metric", name |-> name, reads |-> reads, minRows |-> 0,
     row |-> 0, y |-> 0]
Subplots(rows) ==
    [op |-> "subplots", name |-> "", reads |-> {}, minRows |-> 0,
     row |-> rows, y |-> 0]
Trace(name, reads, row) ==
    [op |-> "trace", name |-> name, reads |-> reads, minRows |-> 0,
     row |-> row, y |-> 0]
HLine(y, row) ==
    [op |-> "hline", name |-> "", reads |-> {}, minRows |-> 0,
     row |-> row, y |-> y]
Chart ==
    [op |-> "chart", name |-> "", reads |-> {}, minRows |-> 0,
     row |-> 0, y |-> 0]
Table(name, reads) ==
    [op |-> "table", name |-> name, reads |-> reads, minRows |-> 0,
     row |-> 0, y |-> 0]

When(b, stmts) == IF b THEN stmts ELSE << >>

\* the else branch of line 86, statement by statement: what each reads of
\* df (a missing column raises KeyError), how many rows it needs (iloc[-2]
\* raises IndexError on a one-row table) and what it shows
Script(t) ==
    << Eval({"Close"}, 1),                               \* line 90
       Eval({"Close"}, 2),                               \* line 91
       Metric("Prix Actuel", {}),
       Metric("Variation", {}),
       Metric("Haut (52 sem.)", {"High"}),
       Metric("Bas (52 sem.)", {"Low"}),
       Metric("Signal Actuel", {"Signal"}),              \* line 108
       Subplots(num_subplots(t)),                        \* lines 114-130
       Trace("OHLC", {"Open", "High", "Low", "Close"}, 1) >>
    \o When(t.sma, << Trace("SMA 20", {"SMA_20"}, 1),
                      Trace("SMA 50", {"SMA_50"}, 1) >>)
    \o When(t.ema, << Trace("EMA 12", {"EMA_12"}, 1),
                      Trace("EMA 26", {"EMA_26"}, 1) >>)
    \o When(t.bb,  << Trace("BB High", {"BB_High"}, 1),
                      Trace("BB Low", {"BB_Low"}, 1) >>)
    \o When(t.rsi, << Trace("RSI (14)", {"RSI"}, RsiRow(t)),
                      HLine(70, RsiRow(t)), HLine(30, RsiRow(t)) >>)
    \o When(t.macd, << Trace("MACD", {"MACD"}, MacdRow(t)),
                       Trace("Signal", {"MACD_Signal"}, MacdRow(t)) >>)
    \o When(t.stoch, << Trace("Stoch K", {"Stoch_K"}, StochRow(t)),
                        Trace("Stoch D", {"Stoch_D"}, StochRow(t)),
                        HLine(80, StochRow(t)), HLine(20, StochRow(t)) >>)
    \o << Chart,                                         \* line 298
          Table("last10", {"Open", "High", "Low", "Close",
                           "RSI", "MACD", "Signal"}),    \* lines 308-309
          Table("describe", {"Open", "High", "Low", "Close"}) >>

\* a statement raises: a column is missing, the table is too short, or the
\* figure has no such row
Raises(df, st, v) ==
    \/ \E c \in st.reads : ~HasCol(df, c)
    \/ NRows(df) < st.minRows
    \/ st.op \in {"trace", "hline"} /\ st.row > v.rows

Show(st, v) ==
    CASE st.op = "metric"   -> [v EXCEPT !.metrics = @ \cup {st.name}]
      [] st.op = "subplots" -> [v EXCEPT !.rows = st.row]
      [] st.op = "trace"    ->
             [v EXCEPT !.traces = @ \cup {[name |-> st.name, row |-> st.row]}]
      [] st.op = "hline"    ->
             [v EXCEPT !.hlines = @ \cup {[y |-> st.y, row |-> st.row]}]
      [] st.op = "chart"    -> [v EXCEPT !.chart = TRUE]
      [] st.op = "table"    -> [v EXCEPT !.tables = @ \cup {st.name}]
      [] OTHER -> v

\* the statements from k on; an exception ends the script run where it is
RECURSIVE Exec(_, _, _, _)
Exec(df, stmts, k, v) ==
    IF k > Len(stmts) THEN [v EXCEPT !.state = "rendered"]
    ELSE IF Raises(df, stmts[k], v) THEN [v EXCEPT !.state = "fault"]
    ELSE Exec(df, stmts, k + 1, Show(stmts[k], v))

\* lines 84-313
Render(df, t) ==
    IF df = None THEN [NoView EXCEPT !.state = "error"]
    ELSE IF IsEmpty(df) THEN [NoView EXCEPT !.state = "error"]
    ELSE Exec(df, Script(t), 1, NoView)

PageBars == 3
ToggleSets == [sma : BOOLEAN, ema : BOOLEAN, bb : BOOLEAN,
               rsi : BOOLEAN, macd : BOOLEAN, stoch : BOOLEAN]

\* what the provider may answer for the page: a failure, a clean table of
\* up to PageBars bars, or one bar with a field missing
PageResponses ==
    {[kind |-> "raise"]}
    \cup {[kind |-> "frame", df |-> Bars(n, 0, [j \in 1..TailLen |-> 10])] :
            n \in 0..PageBars}
    \cup {[kind |-> "frame", df |-> ProviderFrame(OHLCV, 1, <<{4}>>)]}

InitPage ==
    /\ \E r \in PageResponses, fault \in 0..Len(Steps) :
         LET d == load_data(r, fault)
         IN result = d.value /\ failed = d.failed
    /\ toggles \in ToggleSets
    /\ view = NoView
    /\ rpc = "run"
    /\ EngineIdle /\ FetchIdle /\ CacheIdle /\ StoreIdle

RunScript ==
    /\ rpc = "run"
    /\ view' = Render(result, toggles)
    /\ rpc' = "done"
    /\ UNCHANGED <<result, failed, toggles,
                   engineVars, fetchVars, cacheVars, storeVars>>

NextPage == RunScript

SpecPage == InitPage /\ [][NextPage]_vars

-----------------------------------------------------------------------------
(* ForexDataFetcher.save_data / load_data: CSV snapshots in data_dir       *)
(*                                                                         *)
(* A file is a sequence of lines, a line a sequence of fields.  A field is *)
(* [t, n, frac, s]: t = "empty"; "int" (n); "dec" (n, and frac, the digits *)
(* after the point); "date" (n, a day); "text" (s).  A float cell whose    *)
(* s is "long" needs all 17 significant digits in its shortest decimal     *)
(* form; its v counts units in its last place.  A timestamp is a cell of   *)
(* kind "t" whose v is the day.                                            *)

FL(x) == [k |-> "f", v |-> x, s |-> "long"]
T(x)  == [k |-> "t", v |-> x, s |-> ""]

PipDigits == 4
Pow10(n) == IF n = 0 THEN 1 ELSE IF n = 1 THEN 10 ELSE IF n = 2 THEN 100
            ELSE IF n = 3 THEN 1000 ELSE 10000

EmptyField   == [t |-> "empty", n |-> 0, frac |-> << >>, s |-> ""]
TextField(x) == [t |-> "text", n |-> 0, frac |-> << >>, s |-> x]

\* the digits of x after the point, PipDigits of them at first, trailing
\* zeros dropped down to one digit: repr(1.1) is "1.1", repr(1.0) is "1.0"
RECURSIVE StripZeros(_)
StripZeros(d) ==
    IF Len(d) > 1 /\ d[Len(d)] = 0 THEN StripZeros(SubSeq(d, 1, Len(d) - 1))
    ELSE d
FracDigits(x) ==
    StripZeros([j \in 1..PipDigits |->
                  (x \div Pow10(PipDigits - j)) % 10])

\* to_csv of one cell
FormatCell(c) ==
    CASE c.k = "nan" -> EmptyField
      [] c.k = "i"   -> [t |-> "int", n |-> c.v, frac |-> << >>, s |-> ""]
      [] c.k = "f"   -> IF c.s = "long"
                        THEN [t |-> "dec", n |-> c.v, frac |-> << >>,
                              s |-> "long"]
                        ELSE [t |-> "dec", n |-> c.v \div Pow10(PipDigits),
                              frac |-> FracDigits(c.v % Pow10(PipDigits)),
                              s |-> ""]
      [] c.k = "t"   -> [t |-> "date", n |-> c.v, frac |-> << >>, s |-> ""]
      [] c.k = "s"   -> TextField(c.s)

\* df.to_csv(filepath): the header (the index name, then the columns) and
\* one line per row (the index label, then the cells)
to_csv(df) ==
    << <<TextField("")>> \o [j \in 1..Len(df.cols) |-> TextField(df.cols[j])] >>
    \o [i \in 1..NRows(df) |->
          <<FormatCell(df.index[i])>>
          \o [j \in 1..Len(df.cols) |-> FormatCell(df.vals[j][i])]]

RECURSIVE DigitsValue(_, _)
DigitsValue(d, j) ==
    IF j > Len(d) THEN 0
    ELSE d[j] * Pow10(PipDigits - j) + DigitsValue(d, j + 1)

\* read_csv's conversion of one field of a column: an empty field is
\* undefined; a number is an integer only if the whole column is integers;
\* the decimal-to-binary conversion of a float of 17 significant digits is
\* not the round-trip one (no float_precision = 'round_trip') and may land
\* err units in the last place off
\* (ParseFieldZero: the conversion with an empty field read as 0.0)
ParseFieldZero(f, allInt, err) ==
    CASE f.t = "empty" -> F(0)
      [] f.t = "int"   -> IF allInt THEN I(f.n) ELSE F(f.n * Pow10(PipDigits))
      [] f.t = "dec"   -> IF f.s = "long" THEN FL(f.n + err)
                          ELSE F(f.n * Pow10(PipDigits) + DigitsValue(f.frac, 1))
      [] OTHER         -> S(f.s)
ParseField(f, allInt, err) ==
    CASE f.t = "empty" -> NaN
      [] f.t = "int"   -> IF allInt THEN I(f.n) ELSE F(f.n * Pow10(PipDigits))
      [] f.t = "dec"   -> IF f.s = "long" THEN FL(f.n + err)
                          ELSE F(f.n * Pow10(PipDigits) + DigitsValue(f.frac, 1))
      [] OTHER         -> S(f.s)

\* parse_dates = True on the index column
ParseIndex(f) == IF f.t = "date" THEN T(f.n) ELSE ParseField(f, TRUE, 0)

\* pd.read_csv(filepath, index_col = 0, parse_dates = True)
read_csv(text, err) ==
    LET header == text[1]
        n      == Len(text) - 1
        ncols  == Len(header) - 1
        allInt(j) == \A i \in 1..n : text[i+1][j+1].t = "int"
    IN [index |-> [i \in 1..n |-> ParseIndex(text[i+1][1])],
        cols  |-> [j \in 1..ncols |-> header[j+1].s],
        vals  |-> [j \in 1..ncols |->
                     [i \in 1..n |-> ParseField(text[i+1][j+1], allInt(j), err)]]]

\* os.path.join(self.data_dir, filename)
FilePath(name) == <<"data", name>>

MaxStoreRows == 2
\* how far, in units in the last place, the conversion may land
FloatUlp == 1
FileNames == {"EURUSD_data.csv", "GBPUSD_data.csv"}
FilePaths == {FilePath(nm) : nm \in FileNames}

\* a computed table of n bars: on the first w of them the RSI is not yet
\* defined, on the others it is a computed float
StoreCols == <<"Close", "Volume", "RSI", "Signal">>
StoreTable(n, w) ==
    [index |-> [i \in 1..n |-> T(i)],
     cols  |-> StoreCols,
     vals  |-> << [i \in 1..n |-> IF i <= w THEN F(BasePrice)
                                  ELSE FL(BasePrice + i)],
                  [i \in 1..n |-> I(0)],
                  [i \in 1..n |-> IF i <= w THEN NaN ELSE FL(i)],
                  [i \in 1..n |-> S(IF i <= w THEN "HOLD" ELSE "BUY")] >>]
StoreTables ==
    UNION {{StoreTable(n, w) : w \in 0..n} : n \in 0..MaxStoreRows}

InitStore ==
    /\ files = [p \in FilePaths |-> None]
    /\ saved = [nm \in FileNames |-> None]
    /\ loaded = [seq |-> 0, name |-> "", table |-> None]
    /\ EngineIdle /\ FetchIdle /\ CacheIdle /\ PageIdle

\* fetcher.save_data(df, filename)
SaveData ==
    /\ \E df \in StoreTables, nm \in FileNames :
         /\ files' = [files EXCEPT ![FilePath(nm)] = [text |-> to_csv(df)]]
         /\ saved' = [saved EXCEPT ![nm] = df]
    /\ UNCHANGED <<loaded,
                   engineVars, fetchVars, cacheVars, pageVars>>

\* fetcher.load_data(filename)
LoadData ==
    /\ \E nm \in FileNames, err \in -FloatUlp..FloatUlp :
         loaded' = [seq |-> 1 - loaded.seq, name |-> nm,
                    table |-> IF files[FilePath(nm)] # None
                              THEN read_csv(files[FilePath(nm)].text, err)
                              ELSE None]
    /\ UNCHANGED <<files, saved,
                   engineVars, fetchVars, cacheVars, pageVars>>

NextStore == SaveData \/ LoadData

SpecStore == InitStore /\ [][NextStore]_vars

-----------------------------------------------------------------------------
(* Properties                                                              *)

\* calculate_indicators ran its try block to the end
Succeeded == pc = "done" /\ arg0 # None /\ ~IsEmpty(arg0) /\ ~caught

\* C1: after a successful calculate_indicators, on every row of the
\* returned table Signal is BUY iff RSI is defined and below 30, SELL iff
\* RSI is defined and above 70, and HOLD otherwise (undefined RSI
\* included); the row's own RSI alone decides it.
C1_SignalFollowsRsi ==
    Succeeded =>
      /\ HasCol(ret, "RSI") /\ HasCol(ret, "Signal")
      /\ \A i \in 1..NRows(ret) :
           LET r  == Col(ret, "RSI")[i]
               sg == Col(ret, "Signal")[i]
           IN /\ sg.k = "s" /\ sg.s \in {"BUY", "SELL", "HOLD"}
              /\ sg.s = "BUY"  <=> (r.k = "f" /\ r.v < RSI_BUY_BELOW * RsiScale)
              /\ sg.s = "SELL" <=> (r.k = "f" /\ r.v > RSI_SELL_ABOVE * RsiScale)

\* a successful call whose table holds a BUY row, a SELL row, a HOLD row
\* with an RSI in range and a HOLD row with an undefined RSI
C1_Witness ==
    /\ Succeeded
    /\ HasCol(ret, "Signal") /\ HasCol(ret, "RSI")
    /\ \E i, j, m, u \in 1..NRows(ret) :
         /\ Col(ret, "Signal")[i].s = "BUY"
         /\ Col(ret, "Signal")[j].s = "SELL"
         /\ Col(ret, "Signal")[m].s = "HOLD" /\ Col(ret, "RSI")[m].k = "f"
         /\ Col(ret, "Signal")[u].s = "HOLD" /\ Col(ret, "RSI")[u].k = "nan"

\* C2: when a step of calculate_indicators raises, the table returned is
\* the original one: the input's columns and none of the derived columns.
C2_FailureReturnsOriginal ==
    (pc = "done" /\ caught) => ret = arg0

\* C3: calculate_indicators leaves the table object it was given as it
\* was: same columns, same cells, for every non-empty input.
C3_InputUntouched ==
    (pc = "done" /\ arg0 # None /\ ~IsEmpty(arg0)) => arg = arg0

\* C8: on the flat market of 60 bars (Close constant, High > Close > Low)
\* a successful calculate_indicators gives HOLD on every row, the RSI
\* being undefined or within [30, 70].
C8_FlatMarketHolds ==
    (Succeeded /\ arg0 = FlatTable) =>
      \A i \in 1..NRows(ret) :
        /\ Col(ret, "Signal")[i].s = "HOLD"
        /\ \/ Col(ret, "RSI")[i].k = "nan"
           \/ /\ Col(ret, "RSI")[i].v >= RSI_BUY_BELOW * RsiScale
              /\ Col(ret, "RSI")[i].v <= RSI_SELL_ABOVE * RsiScale

\* a row of the provider's answer with every field present
UsableRow(df, i) == \A j \in 1..Len(df.cols) : ~IsNaN(df.vals[j][i])
NoUsableBar(r) ==
    \/ r.kind = "raise"
    \/ \A i \in 1..NRows(r.df) : ~UsableRow(r.df, i)

\* C4: whatever the provider does, fetch_forex_data raises nothing and
\* returns None or a table whose rows all have Open, High, Low, Close and
\* Volume; when the provider yields no usable bar it returns None.
C4_AbsentOrClean ==
    fpc # "call" =>
      /\ fpc = "done"
      /\ \/ fetched = None
         \/ /\ fetched.cols = OHLCV
            /\ \A i \in 1..NRows(fetched) : UsableRow(fetched, i)
      /\ NoUsableBar(resp) => fetched = None

C6_ErrorOrRendered ==
    rpc = "done" =>
      IF result = None THEN view.state = "error"
      ELSE IF IsEmpty(result) THEN view.state = "error"
      ELSE view.state = "rendered"

IndicatorTraces ==
    {"SMA 20", "SMA 50", "EMA 12", "EMA 26", "BB High", "BB Low",
     "RSI (14)", "MACD", "Signal", "Stoch K", "Stoch D"}

\* C7: when the indicator computation failed and the table (of two bars
\* or more) carries no derived column, the page still renders the
\* candlesticks and leaves out every indicator element, for all toggles.
C7_DegradedStillRenders ==
    (/\ rpc = "done" /\ failed /\ result # None
     /\ NRows(result) >= 2
     /\ \A c \in DerivedCols : ~HasCol(result, c))
    => /\ view.state = "rendered"
       /\ [name |-> "OHLC", row |-> 1] \in view.traces
       /\ \A tr \in view.traces : tr.name \notin IndicatorTraces
       /\ "Signal Actuel" \notin view.metrics

PanelOrder == <<"rsi", "macd", "stoch">>
PanelTraces == [rsi   |-> {"RSI (14)"},
                macd  |-> {"MACD", "Signal"},
                stoch |-> {"Stoch K", "Stoch D"}]
PanelLines == [rsi |-> {70, 30}, macd |-> {}, stoch |-> {80, 20}]
Overlays == [sma |-> {"SMA 20", "SMA 50"}, ema |-> {"EMA 12", "EMA 26"},
             bb  |-> {"BB High", "BB Low"}]
\* the row a sub-panel is due: the first row is the price panel, and the
\* enabled sub-panels follow in order
DueRow(t, p) == 1 + Cardinality({m \in 1..p : t[PanelOrder[m]]})

\* C10: the chart has 1 + (enabled sub-panels) rows; candlesticks and
\* overlays sit in row 1; the enabled sub-panels fill rows 2.. in the
\* order RSI, MACD, Stochastic, one row each; nothing is drawn beyond the
\* last row.
C10_PanelRows ==
    (rpc = "done" /\ view.rows > 0) =>
      /\ view.rows = 1 + Cardinality({p \in 1..3 : toggles[PanelOrder[p]]})
      /\ \A tr \in view.traces \cup view.hlines :
           tr.row >= 1 /\ tr.row <= view.rows
      /\ view.state = "rendered" =>
           /\ [name |-> "OHLC", row |-> 1] \in view.traces
           /\ \A o \in DOMAIN Overlays : \A nm \in Overlays[o] :
                /\ toggles[o] => [name |-> nm, row |-> 1] \in view.traces
                /\ \A tr \in view.traces : tr.name = nm => toggles[o] /\ tr.row = 1
           /\ \A p \in 1..3 :
                /\ \A nm \in PanelTraces[PanelOrder[p]] :
                     /\ toggles[PanelOrder[p]] =>
                          [name |-> nm, row |-> DueRow(toggles, p)] \in view.traces
                     /\ \A tr \in view.traces : tr.name = nm =>
                          toggles[PanelOrder[p]] /\ tr.row = DueRow(toggles, p)
                /\ toggles[PanelOrder[p]] =>
                     \A y \in PanelLines[PanelOrder[p]] :
                       [y |-> y, row |-> DueRow(toggles, p)] \in view.hlines
           /\ {tr.row : tr \in view.traces} = 1..view.rows

\* a rendered chart with the three sub-panels on and four rows
C10_Witness ==
    /\ rpc = "done" /\ view.state = "rendered"
    /\ toggles.rsi /\ toggles.macd /\ toggles.stoch
    /\ view.rows = 4
    /\ [name |-> "Stoch D", row |-> 4] \in view.traces

\* two cells agree up to the float conversion: the same kind, undefined
\* on both sides or on neither, floats within FloatUlp units in the last
\* place, everything else equal
CellClose(a, b) ==
    /\ a.k = b.k /\ a.s = b.s
    /\ IF a.k = "f" /\ a.s = "long"
       THEN a.v - b.v <= FloatUlp /\ b.v - a.v <= FloatUlp
       ELSE a.v = b.v
TableClose(a, b) ==
    /\ a.index = b.index
    /\ a.cols = b.cols
    /\ \A j \in 1..Len(a.cols) : \A i \in 1..NRows(a) :
         CellClose(a.vals[j][i], b.vals[j][i])

\* C9 as stated: load_data(name) returns None if nothing was saved under
\* name, and otherwise a table equal, cell for cell, to the table last
\* saved under that name.
C9_LoadEqualsSaved ==
    [][loaded'.seq # loaded.seq =>
         IF saved[loaded'.name] = None THEN loaded'.table = None
         ELSE loaded'.table = saved[loaded'.name]]_vars

\* C9, amended: load_data(name) returns None if nothing was saved under
\* name, and otherwise the table last saved under that name with the same
\* rows, index and columns, every undefined cell still undefined, integer
\* and text cells equal and float cells equal up to the float conversion;
\* a save under one name leaves the other names' tables as they were.
C9_LoadCloseToSaved ==
    [][/\ loaded'.seq # loaded.seq =>
            IF saved[loaded'.name] = None THEN loaded'.table = None
            ELSE /\ loaded'.table # None
                 /\ TableClose(loaded'.table, saved[loaded'.name])
       /\ \A nm \in FileNames :
            saved'[nm] = saved[nm] => files'[FilePath(nm)] = files[FilePath(nm)]
      ]_vars

\* a loaded table with an undefined cell and a float that came back one
\* unit off, while the other name holds a different table
C9_Witness ==
    /\ loaded.seq = 1 /\ loaded.table # None
    /\ saved[loaded.name] # None
    /\ TableClose(loaded.table, saved[loaded.name])
    /\ loaded.table # saved[loaded.name]
    /\ \E j \in 1..Len(loaded.table.cols), i \in 1..NRows(loaded.table) :
         IsNaN(loaded.table.vals[j][i])
    /\ \E o \in FileNames \ {loaded.name} :
         saved[o] # None /\ saved[o] # saved[loaded.name]

=============================================================================
